---------------------------- MODULE Spec2Model ----------------------------
(***************************************************************************)
(* A state-machine model of atom::NativeWindowViews                        *)
(* (atom/browser/native_window_views.cc): the menu bar and its auto-hide   *)
(* flags, the accelerator table, the draggable region, the content-size    *)
(* arithmetic and the window-state delegations to views::Widget.           *)
(*                                                                         *)
(* The object's fields are the variables.  Every member function is an     *)
(* operator from an object state (a record of the fields) to the object    *)
(* state it leaves, named as in the source; an action Call<Name> draws the *)
(* inputs, applies the member function to the current state and stores the *)
(* result.  The toolkit objects the file talks to (views::Widget,          *)
(* views::FocusManager, views::View's child list, SkRegion) are modelled   *)
(* by the part of their state the file reads back.                         *)
(***************************************************************************)
EXTENDS Integers, Sequences, FiniteSets, TLC

VARIABLES
    platform,               \* the build: "win" (OS_WIN) or "x11" (USE_X11)
    has_frame_,             \* NativeWindow::has_frame_
    menu_bar_autohide_,
    menu_bar_visible_,
    menu_bar_alt_pressed_,
    use_content_size_,
    resizable_,
    title_,
    minimum_size_,
    maximum_size_,
    menu_bar_,              \* NULL, or the MenuBar with the menu model it shows
    global_menu_bar_,       \* NULL, or the GlobalMenuBarX11 with its menu model
    accelerator_table_,     \* the map as its <<accelerator, command>> entries
    draggable_region_,      \* NULL, or the SkRegion as its set of points
    children,               \* the child views of the contents view, in order
    registered,             \* accelerators the focus manager holds for this
    window_,                \* the views::Widget's state
    frame_insets,           \* what the non-client frame adds around the client
    dcheck_failed,          \* a DCHECK of the file has failed
    smbv_calls,             \* SetMenuBarVisibility calls of the last operation
    widget_calls,           \* calls on window_ made by the last operation
    last_op,                \* the last operation: its name, argument, result
    last_key_event,         \* the event of the last HandleKeyboardEvent
    last_menu_model         \* the menu model of the last SetMenu

vars == <<platform, has_frame_, menu_bar_autohide_, menu_bar_visible_,
          menu_bar_alt_pressed_, use_content_size_, resizable_, title_,
          minimum_size_, maximum_size_, menu_bar_, global_menu_bar_,
          accelerator_table_, draggable_region_, children, registered,
          window_, frame_insets, dcheck_failed, smbv_calls, widget_calls,
          last_op, last_key_event, last_menu_model>>

\* A null pointer; what a pointer holds is a record of other fields.
NULL == [null |-> TRUE]

\* The object state as one record, so that member functions compose.
Self ==
    [platform |-> platform, has_frame_ |-> has_frame_,
     menu_bar_autohide_ |-> menu_bar_autohide_,
     menu_bar_visible_ |-> menu_bar_visible_,
     menu_bar_alt_pressed_ |-> menu_bar_alt_pressed_,
     use_content_size_ |-> use_content_size_, resizable_ |-> resizable_,
     title_ |-> title_, minimum_size_ |-> minimum_size_,
     maximum_size_ |-> maximum_size_, menu_bar_ |-> menu_bar_,
     global_menu_bar_ |-> global_menu_bar_,
     accelerator_table_ |-> accelerator_table_,
     draggable_region_ |-> draggable_region_, children |-> children,
     registered |-> registered, window_ |-> window_,
     frame_insets |-> frame_insets, dcheck_failed |-> dcheck_failed,
     smbv_calls |-> smbv_calls, widget_calls |-> widget_calls]

\* The object state at the entry of an operation: the call logs start empty.
Entry == [Self EXCEPT !.smbv_calls = <<>>, !.widget_calls = <<>>]

\* The state an operation leaves, with what it was, took and returned.
Becomes(s, name, arg, ret) ==
    /\ platform' = s.platform
    /\ has_frame_' = s.has_frame_
    /\ menu_bar_autohide_' = s.menu_bar_autohide_
    /\ menu_bar_visible_' = s.menu_bar_visible_
    /\ menu_bar_alt_pressed_' = s.menu_bar_alt_pressed_
    /\ use_content_size_' = s.use_content_size_
    /\ resizable_' = s.resizable_
    /\ title_' = s.title_
    /\ minimum_size_' = s.minimum_size_
    /\ maximum_size_' = s.maximum_size_
    /\ menu_bar_' = s.menu_bar_
    /\ global_menu_bar_' = s.global_menu_bar_
    /\ accelerator_table_' = s.accelerator_table_
    /\ draggable_region_' = s.draggable_region_
    /\ children' = s.children
    /\ registered' = s.registered
    /\ window_' = s.window_
    /\ frame_insets' = s.frame_insets
    /\ dcheck_failed' = s.dcheck_failed
    /\ smbv_calls' = s.smbv_calls
    /\ widget_calls' = s.widget_calls
    /\ last_op' = [name |-> name, arg |-> arg, ret |-> ret]

----------------------------------------------------------------------------
(* Geometry: gfx::Size and gfx::Rect keep their extents non-negative.      *)

ClampNonNegative(n) == IF n < 0 THEN 0 ELSE n

Size(w, h) == [width |-> ClampNonNegative(w), height |-> ClampNonNegative(h)]

Rect(x, y, w, h) ==
    [x |-> x, y |-> y,
     width |-> ClampNonNegative(w), height |-> ClampNonNegative(h)]

SizeOf(r) == [width |-> r.width, height |-> r.height]

\* The menu bar height in pixels.
kMenuBarHeight(p) == IF p = "win" THEN 20 ELSE 25

INT_MAX == 2147483647
kDefaultWidth == 800
kDefaultHeight == 600

\* window_->CallSomething(): the call is logged with its argument.
WidgetCall(s, call, arg) ==
    [s EXCEPT !.widget_calls = Append(@, [call |-> call, arg |-> arg])]

\* window_->SetBounds(bounds): the widget takes the bounds as given.
WidgetSetBounds(s, bounds) ==
    [WidgetCall(s, "SetBounds", bounds)
        EXCEPT !.window_.bounds = bounds, !.window_.restored_bounds = bounds]

\* window_->SetSize(size): the origin stays.
WidgetSetSize(s, size) ==
    LET b == s.window_.bounds
        bounds == Rect(b.x, b.y, size.width, size.height)
    IN  [WidgetCall(s, "SetSize", size)
            EXCEPT !.window_.bounds = bounds,
                   !.window_.restored_bounds = bounds]

\* window_->non_client_view()->GetWindowBoundsForClientBounds(bounds): the
\* frame adds its insets; a frameless window has none.
GetWindowBoundsForClientBounds(s, bounds) ==
    Rect(bounds.x, bounds.y, bounds.width + s.frame_insets.width,
         bounds.height + s.frame_insets.height)

\* frame_view()->GetBoundsForClientView().size(): the window without the frame.
GetBoundsForClientViewSize(s) ==
    Size(s.window_.bounds.width - s.frame_insets.width,
         s.window_.bounds.height - s.frame_insets.height)

IsMinimized(s) == s.window_.minimized

GetSize(s) ==
    IF s.platform = "win" /\ IsMinimized(s)
    THEN SizeOf(s.window_.restored_bounds)
    ELSE SizeOf(s.window_.bounds)

ContentBoundsToWindowBounds(s, bounds) ==
    LET window_bounds == GetWindowBoundsForClientBounds(s, bounds)
    IN  IF s.menu_bar_ # NULL /\ s.menu_bar_visible_
        THEN Rect(window_bounds.x, window_bounds.y, window_bounds.width,
                  window_bounds.height + kMenuBarHeight(s.platform))
        ELSE window_bounds

SetSize(s, size) ==
    WidgetSetSize(s, size)

SetContentSize(s, size) ==
    IF ~s.has_frame_
    THEN SetSize(s, size)
    ELSE LET b == s.window_.bounds
             bounds == Rect(b.x, b.y, size.width, size.height)
         IN  WidgetSetBounds(s, ContentBoundsToWindowBounds(s, bounds))

GetContentSize(s) ==
    IF ~s.has_frame_
    THEN GetSize(s)
    ELSE LET content_size == GetBoundsForClientViewSize(s)
         IN  IF s.menu_bar_ # NULL /\ s.menu_bar_visible_
             THEN Size(content_size.width,
                       content_size.height - kMenuBarHeight(s.platform))
             ELSE content_size

----------------------------------------------------------------------------
(* The constructor.                                                        *)

Platforms == {"win", "x11"}

\* What the non-client frame of a framed window adds: nothing, or a border
\* and a caption.
FrameInsets == {Size(0, 0), Size(16, 39)}

Normal(bounds) ==
    [bounds |-> bounds, restored_bounds |-> bounds, maximized |-> FALSE,
     minimized |-> FALSE, fullscreen |-> FALSE, visible |-> FALSE,
     active |-> FALSE, always_on_top |-> FALSE]

\* options: frame, resizable, title, auto-hide-menu-bar, width, height,
\* use-content-size; build: the platform and the frame the toolkit draws.
NativeWindowViews(build, options) ==
    LET frame == options.frame
        constructed ==
          [platform |-> build.platform, has_frame_ |-> frame,
           menu_bar_autohide_ |-> options.autohide,
           menu_bar_visible_ |-> FALSE, menu_bar_alt_pressed_ |-> FALSE,
           use_content_size_ |-> frame /\ options.use_content_size,
           resizable_ |-> options.resizable, title_ |-> options.title,
           minimum_size_ |-> Size(0, 0),
           maximum_size_ |-> Size(INT_MAX \div 10, INT_MAX \div 10),
           menu_bar_ |-> NULL, global_menu_bar_ |-> NULL,
           accelerator_table_ |-> {}, draggable_region_ |-> NULL,
           children |-> <<"web_view_">>, registered |-> {},
           window_ |-> Normal(Rect(0, 0, options.width, options.height)),
           frame_insets |-> IF frame THEN build.insets ELSE Size(0, 0),
           dcheck_failed |-> FALSE, smbv_calls |-> <<>>,
           widget_calls |-> <<>>]
        bounds ==
          IF frame /\ options.use_content_size
          THEN ContentBoundsToWindowBounds(constructed,
                                           constructed.window_.bounds)
          ELSE constructed.window_.bounds
    IN  [constructed EXCEPT !.window_ = Normal(bounds)]

Constructed(s) ==
    /\ platform = s.platform
    /\ has_frame_ = s.has_frame_
    /\ menu_bar_autohide_ = s.menu_bar_autohide_
    /\ menu_bar_visible_ = s.menu_bar_visible_
    /\ menu_bar_alt_pressed_ = s.menu_bar_alt_pressed_
    /\ use_content_size_ = s.use_content_size_
    /\ resizable_ = s.resizable_
    /\ title_ = s.title_
    /\ minimum_size_ = s.minimum_size_
    /\ maximum_size_ = s.maximum_size_
    /\ menu_bar_ = s.menu_bar_
    /\ global_menu_bar_ = s.global_menu_bar_
    /\ accelerator_table_ = s.accelerator_table_
    /\ draggable_region_ = s.draggable_region_
    /\ children = s.children
    /\ registered = s.registered
    /\ window_ = s.window_
    /\ frame_insets = s.frame_insets
    /\ dcheck_failed = s.dcheck_failed
    /\ smbv_calls = s.smbv_calls
    /\ widget_calls = s.widget_calls
    /\ last_op = [name |-> "NativeWindowViews", arg |-> NULL, ret |-> NULL]
    /\ last_key_event = NULL
    /\ last_menu_model = NULL

----------------------------------------------------------------------------
(* The menu bar.                                                           *)

\* views::View::AddChildView: a view that is already a child moves to the end.
AddChildView(views, view) ==
    SelectSeq(views, LAMBDA v : v # view) \o <<view>>

\* views::View::RemoveChildView: a view that is no child is left alone.
RemoveChildView(views, view) ==
    SelectSeq(views, LAMBDA v : v # view)

child_count(s) == Len(s.children)

\* Every call is logged with the state it found.  A failed DCHECK_EQ is
\* recorded and, as in a release build, execution goes on.
SetMenuBarVisibility(s, visible) ==
    LET called == [s EXCEPT !.smbv_calls =
                     Append(@, [visible |-> visible,
                                menu_bar_ |-> s.menu_bar_ # NULL,
                                menu_bar_visible_ |-> s.menu_bar_visible_,
                                child_count |-> child_count(s)])]
    IN  IF s.menu_bar_ = NULL
        THEN called
        ELSE IF visible
        THEN [called EXCEPT !.menu_bar_visible_ = TRUE,
                            !.dcheck_failed = @ \/ child_count(s) # 1,
                            !.children = AddChildView(@, "menu_bar_")]
        ELSE [called EXCEPT !.menu_bar_visible_ = FALSE,
                            !.dcheck_failed = @ \/ child_count(s) # 2,
                            !.children = RemoveChildView(@, "menu_bar_")]

----------------------------------------------------------------------------
(* Accelerators.  A menu model is the set of its items that carry an       *)
(* accelerator, each <<accelerator, command>>; an accelerator names one    *)
(* item of a model.                                                        *)

MaxCommand == 2

Accelerators == {"Ctrl+A", "Ctrl+B"}

Commands == 1..MaxCommand

Keys(table) == {entry[1] : entry \in table}

MenuModels ==
    {m \in SUBSET (Accelerators \X Commands) :
        \A e1 \in m, e2 \in m : e1[1] = e2[1] => e1 = e2}

\* accelerator_util::GenerateAcceleratorTable: (*table)[accelerator] = item,
\* for every item of the model that has an accelerator.
GenerateAcceleratorTable(table, menu_model) ==
    {entry \in table : entry[1] \notin Keys(menu_model)} \cup menu_model

RegisterAccelerators_NoClear(s, menu_model) ==
    LET table == GenerateAcceleratorTable(s.accelerator_table_, menu_model)
    IN  [s EXCEPT !.accelerator_table_ = table,
                  !.registered = s.registered \cup Keys(table)]

RegisterAccelerators(s, menu_model) ==
    LET cleared == [s EXCEPT !.accelerator_table_ = {},
                             \* focus_manager->UnregisterAccelerators(this)
                             !.registered = {}]
        table == GenerateAcceleratorTable(cleared.accelerator_table_,
                                          menu_model)
    IN  [cleared EXCEPT !.accelerator_table_ = table,
                        \* focus_manager->RegisterAccelerator(iter->first, ..)
                        !.registered = cleared.registered \cup Keys(table)]

\* accelerator_util::TriggerAcceleratorTableCommand: whether the table holds
\* the accelerator (its command is then executed).
AcceleratorPressed(s, accelerator) == accelerator \in Keys(s.accelerator_table_)

----------------------------------------------------------------------------
(* SetMenu.  env: what the desktop answers on X11, whether Unity runs      *)
(* (ShouldUseGlobalMenuBar) and whether the global menu server has started.*)

Envs == [unity : BOOLEAN, server_started : BOOLEAN]

ShouldUseGlobalMenuBar(env) == env.unity

SetMenu_NoFrameCheck(s, menu_model, env) ==
    LET accelerated == RegisterAccelerators(s, menu_model)
        global ==
          IF s.platform = "x11" /\ s.global_menu_bar_ = NULL
                                /\ ShouldUseGlobalMenuBar(env)
          THEN [accelerated EXCEPT !.global_menu_bar_ = [menu |-> {}]]
          ELSE accelerated
        content_size == GetContentSize(global)
        created == [global EXCEPT !.menu_bar_ = [menu |-> {}]]
        shown == SetMenuBarVisibility(created, TRUE)
        with_bar ==
          IF global.menu_bar_ # NULL THEN global
          ELSE IF global.menu_bar_autohide_ THEN created
          ELSE IF global.use_content_size_
               THEN SetContentSize(shown, content_size)
          ELSE shown
    IN  IF s.platform = "x11" /\ global.global_menu_bar_ # NULL
                              /\ env.server_started
        THEN [global EXCEPT !.global_menu_bar_ = [menu |-> menu_model]]
        ELSE [with_bar EXCEPT !.menu_bar_ = [menu |-> menu_model]]

SetMenu_NoContentSize(s, menu_model, env) ==
    LET accelerated == RegisterAccelerators(s, menu_model)
        global ==
          IF s.platform = "x11" /\ s.global_menu_bar_ = NULL
                                /\ ShouldUseGlobalMenuBar(env)
          THEN [accelerated EXCEPT !.global_menu_bar_ = [menu |-> {}]]
          ELSE accelerated
        created == [global EXCEPT !.menu_bar_ = [menu |-> {}]]
        shown == SetMenuBarVisibility(created, TRUE)
        with_bar ==
          IF global.menu_bar_ # NULL THEN global
          ELSE IF global.menu_bar_autohide_ THEN created
          ELSE shown
    IN  IF s.platform = "x11" /\ global.global_menu_bar_ # NULL
                              /\ env.server_started
        THEN [global EXCEPT !.global_menu_bar_ = [menu |-> menu_model]]
        ELSE IF ~s.has_frame_
        THEN global
        ELSE [with_bar EXCEPT !.menu_bar_ = [menu |-> menu_model]]

SetMenu(s, menu_model, env) ==
    LET accelerated == RegisterAccelerators(s, menu_model)
        global ==
          IF s.platform = "x11" /\ s.global_menu_bar_ = NULL
                                /\ ShouldUseGlobalMenuBar(env)
          THEN [accelerated EXCEPT !.global_menu_bar_ = [menu |-> {}]]
          ELSE accelerated
        content_size == GetContentSize(global)
        created == [global EXCEPT !.menu_bar_ = [menu |-> {}]]
        shown == SetMenuBarVisibility(created, TRUE)
        with_bar ==
          IF global.menu_bar_ # NULL THEN global
          ELSE IF global.menu_bar_autohide_ THEN created
          ELSE IF global.use_content_size_
               THEN SetContentSize(shown, content_size)
          ELSE shown
    IN  \* Use global application menu bar when possible.
        IF s.platform = "x11" /\ global.global_menu_bar_ # NULL
                              /\ env.server_started
        THEN [global EXCEPT !.global_menu_bar_ = [menu |-> menu_model]]
        \* Do not show menu bar in frameless window.
        ELSE IF ~s.has_frame_
        THEN global
        \* menu_bar_->SetMenu(menu_model)
        ELSE [with_bar EXCEPT !.menu_bar_ = [menu |-> menu_model]]

----------------------------------------------------------------------------
(* Keyboard, mouse and activation events.                                  *)

\* content::NativeWebKeyboardEvent: modifiers is the set of the flags or-ed
\* into the field, so that modifiers == 0 is the empty set.
VKEY_MENU == 18
VK_LALT == 164
VK_RALT == 165

IsAltKey(p, event) ==
    IF p = "x11"
    THEN event.windowsKeyCode = VK_LALT \/ event.windowsKeyCode = VK_RALT
    ELSE event.windowsKeyCode = VKEY_MENU

IsAltModifier_AnyWithAlt(event) == "AltKey" \in event.modifiers

IsAltModifier(event) ==
    \/ event.modifiers = {"AltKey"}
    \/ event.modifiers = {"AltKey", "IsLeft"}
    \/ event.modifiers = {"AltKey", "IsRight"}

HandleKeyboardEvent(s, event) ==
    \* keyboard_event_handler_->HandleKeyboardEvent hands the event to the
    \* focus manager; it writes no field of this object.
    IF ~s.menu_bar_autohide_
    THEN s
    ELSE IF event.type = "RawKeyDown" /\ IsAltKey(s.platform, event)
                                      /\ IsAltModifier(event)
    THEN [s EXCEPT !.menu_bar_alt_pressed_ = TRUE]
    ELSE IF event.type = "KeyUp" /\ IsAltKey(s.platform, event)
              /\ event.modifiers = {} /\ s.menu_bar_alt_pressed_
    THEN SetMenuBarVisibility([s EXCEPT !.menu_bar_alt_pressed_ = FALSE],
                              ~s.menu_bar_visible_)
    ELSE [s EXCEPT !.menu_bar_alt_pressed_ = FALSE]

HandleMouseDown_NoVisibleCheck(s) ==
    IF s.menu_bar_autohide_
    THEN SetMenuBarVisibility(s, FALSE)
    ELSE s

HandleMouseDown_Toggle(s) ==
    IF s.menu_bar_autohide_
    THEN SetMenuBarVisibility(s, ~s.menu_bar_visible_)
    ELSE s

HandleMouseDown(s) ==
    \* Hide menu bar when web view is clicked.
    IF s.menu_bar_autohide_ /\ s.menu_bar_visible_
    THEN SetMenuBarVisibility(s, FALSE)
    ELSE s

\* widget: "window_" for this window's widget, or another widget.
OnWidgetActivationChanged(s, widget, active) ==
    IF widget # "window_"
    THEN s
    ELSE \* NotifyWindowFocus / NotifyWindowBlur and the web contents' focus
         \* write no field of this object.
         IF ~active /\ s.menu_bar_autohide_ /\ s.menu_bar_visible_
         THEN SetMenuBarVisibility(s, FALSE)
         ELSE s

----------------------------------------------------------------------------
(* The operations as actions.                                              *)

KeyboardEvents ==
    [type : {"RawKeyDown", "KeyUp", "Char"},
     windowsKeyCode : {VKEY_MENU, VK_LALT, VK_RALT},
     modifiers : {{}, {"AltKey"}, {"AltKey", "IsLeft"}, {"AltKey", "IsRight"},
                  {"AltKey", "ShiftKey"}}]

\* A press and a release of a single Alt, on either build.
AltTapEvents ==
    {e \in KeyboardEvents :
        /\ e.windowsKeyCode \in {VKEY_MENU, VK_LALT}
        /\ \/ e.type = "RawKeyDown" /\ e.modifiers = {"AltKey"}
           \/ e.type = "KeyUp" /\ e.modifiers = {}}

Widgets == {"window_", "other"}

CallSetMenu(menus) ==
    \E menu_model \in menus, env \in Envs :
        /\ Becomes(SetMenu(Entry, menu_model, env), "SetMenu", menu_model, NULL)
        /\ last_menu_model' = [menu |-> menu_model]
        /\ UNCHANGED last_key_event

CallHandleKeyboardEvent(events) ==
    \E event \in events :
        /\ Becomes(HandleKeyboardEvent(Entry, event),
                   "HandleKeyboardEvent", event, NULL)
        /\ last_key_event' = event
        /\ UNCHANGED last_menu_model

CallHandleMouseDown ==
    /\ Becomes(HandleMouseDown(Entry), "HandleMouseDown", NULL, NULL)
    /\ UNCHANGED <<last_key_event, last_menu_model>>

CallOnWidgetActivationChanged ==
    \E widget \in Widgets, active \in BOOLEAN :
        /\ Becomes(OnWidgetActivationChanged(Entry, widget, active),
                   "OnWidgetActivationChanged",
                   [widget |-> widget, active |-> active], NULL)
        /\ UNCHANGED <<last_key_event, last_menu_model>>

CallAcceleratorPressed ==
    \E accelerator \in Accelerators :
        /\ Becomes(Entry, "AcceleratorPressed", accelerator,
                   AcceleratorPressed(Entry, accelerator))
        /\ UNCHANGED <<last_key_event, last_menu_model>>

----------------------------------------------------------------------------
(* The menu bar under SetMenu and the keyboard, mouse and activation       *)
(* events.                                                                 *)

Init(builds, options) ==
    \E build \in builds, o \in options :
        Constructed(NativeWindowViews(build, o))

Builds == [platform : Platforms, insets : FrameInsets]

DefaultOptions ==
    [frame : BOOLEAN, autohide : BOOLEAN, use_content_size : {FALSE},
     resizable : {TRUE}, title : {""},
     width : {kDefaultWidth}, height : {kDefaultHeight}]

\* Two menus that differ in their accelerators.
SampleMenus == {{}, {<<"Ctrl+A", 1>>}}

InitMenuBar == Init({b \in Builds : b.insets = Size(16, 39)}, DefaultOptions)

NextMenuBar ==
    \/ CallSetMenu(SampleMenus)
    \/ CallHandleKeyboardEvent(KeyboardEvents)
    \/ CallHandleMouseDown
    \/ CallOnWidgetActivationChanged

Spec == InitMenuBar /\ [][NextMenuBar]_vars

\* The Alt key of the build, as the key codes of the claim.
IsAltRelease(event) ==
    /\ event.type = "KeyUp"
    /\ event.modifiers = {}
    /\ IF platform = "x11" THEN event.windowsKeyCode \in {164, 165}
                           ELSE event.windowsKeyCode = 18

IsSingleAltPress(event) ==
    /\ event # NULL
    /\ event.type = "RawKeyDown"
    /\ event.modifiers \in {{"AltKey"}, {"AltKey", "IsLeft"},
                            {"AltKey", "IsRight"}}
    /\ IF platform = "x11" THEN event.windowsKeyCode \in {164, 165}
                           ELSE event.windowsKeyCode = 18

\* C1: with auto-hide on, a keyboard event changes menu_bar_visible_ only if
\* it is the release of the Alt key with no modifiers and the keyboard event
\* right before it was the press of a single Alt; after any keyboard event
\* that is not the press of a single Alt, menu_bar_alt_pressed_ is false.
C1_ToggleOnlyOnSingleAlt ==
    [][(menu_bar_autohide_ /\ last_op'.name = "HandleKeyboardEvent") =>
          /\ menu_bar_visible_' # menu_bar_visible_ =>
                /\ IsAltRelease(last_key_event')
                /\ IsSingleAltPress(last_key_event)
          /\ ~IsSingleAltPress(last_key_event') => ~menu_bar_alt_pressed_'
      ]_vars

C1_Witness ==
    /\ menu_bar_autohide_
    /\ last_op.name = "HandleKeyboardEvent"
    /\ IsAltRelease(last_key_event)
    /\ menu_bar_visible_
    /\ Len(smbv_calls) = 1

\* C2: with auto-hide on, right after the window is blurred
\* (OnWidgetActivationChanged(window_, false)) or the web view is clicked
\* (HandleMouseDown) the menu bar is hidden and is no child view.
C2_HiddenAfterBlurOrClick ==
    (/\ menu_bar_autohide_
     /\ \/ last_op.name = "HandleMouseDown"
        \/ /\ last_op.name = "OnWidgetActivationChanged"
           /\ last_op.arg.widget = "window_"
           /\ ~last_op.arg.active)
    => /\ ~menu_bar_visible_
       /\ \A i \in 1..Len(children) : children[i] # "menu_bar_"

C2_Witness ==
    /\ menu_bar_autohide_
    /\ last_op.name = "OnWidgetActivationChanged"
    /\ last_op.arg.widget = "window_"
    /\ ~last_op.arg.active
    /\ Len(smbv_calls) = 1
    /\ smbv_calls[1].menu_bar_visible_

\* C3: in a frameless window no MenuBar is ever created, menu_bar_visible_
\* stays false and the web view is the only child view.
C3_NoMenuBarWithoutFrame ==
    ~has_frame_ =>
        /\ menu_bar_ = NULL
        /\ ~menu_bar_visible_
        /\ children = <<"web_view_">>

C3_Witness ==
    /\ ~has_frame_
    /\ last_menu_model # NULL
    /\ last_op.name = "HandleKeyboardEvent"
    /\ IsAltRelease(last_key_event)
    /\ Len(smbv_calls) = 1

\* C7 as stated: no DCHECK fails, there is one child view while the bar is
\* hidden and two while it is shown, and every SetMenuBarVisibility call is
\* made with an existing menu bar, to show it while hidden or to hide it
\* while shown.
C7_AsStated ==
    /\ ~dcheck_failed
    /\ Len(children) = IF menu_bar_visible_ THEN 2 ELSE 1
    /\ \A i \in 1..Len(smbv_calls) :
          /\ smbv_calls[i].menu_bar_
          /\ smbv_calls[i].visible = ~smbv_calls[i].menu_bar_visible_

\* C7, amended: no DCHECK fails, there is one child view while the bar is
\* hidden and two while it is shown, and every SetMenuBarVisibility call
\* either finds no menu bar, and then asks to show it and changes nothing, or
\* finds one and shows it while hidden or hides it while shown.
C7_DchecksHold ==
    /\ ~dcheck_failed
    /\ Len(children) = IF menu_bar_visible_ THEN 2 ELSE 1
    /\ menu_bar_visible_ => menu_bar_ # NULL
    /\ \A i \in 1..Len(smbv_calls) :
          /\ smbv_calls[i].visible = ~smbv_calls[i].menu_bar_visible_
          /\ smbv_calls[i].child_count =
                IF smbv_calls[i].menu_bar_visible_ THEN 2 ELSE 1
          /\ ~smbv_calls[i].menu_bar_ =>
                /\ smbv_calls[i].visible
                /\ ~menu_bar_visible_
                /\ children = <<"web_view_">>

C7_Witness ==
    /\ last_op.name = "HandleKeyboardEvent"
    /\ Len(smbv_calls) = 1
    /\ smbv_calls[1].menu_bar_
    /\ ~smbv_calls[1].visible
    /\ children = <<"web_view_">>

----------------------------------------------------------------------------
(* Accelerators under SetMenu.                                             *)

InitAccelerators ==
    Init({b \in Builds : b.insets = Size(16, 39)}, DefaultOptions)

NextAccelerators ==
    \/ CallSetMenu(MenuModels)
    \/ CallAcceleratorPressed

SpecAccelerators == InitAccelerators /\ [][NextAccelerators]_vars

LatestMenu == IF last_menu_model = NULL THEN {} ELSE last_menu_model.menu

\* C5: after any sequence of SetMenu calls the accelerators registered with
\* the focus manager are exactly the keys of accelerator_table_, the table
\* holds the items of the most recent menu model and nothing else, and
\* AcceleratorPressed triggers an accelerator only if that model has it.
C5_AcceleratorsOfLatestMenuOnly ==
    /\ registered = {entry[1] : entry \in accelerator_table_}
    /\ accelerator_table_ = LatestMenu
    /\ last_op.name = "AcceleratorPressed" =>
          last_op.ret = (\E item \in LatestMenu : item[1] = last_op.arg)

C5_Witness ==
    /\ last_op.name = "AcceleratorPressed"
    /\ ~last_op.ret
    /\ LatestMenu # {}
    /\ registered # {}
    /\ global_menu_bar_ = NULL

----------------------------------------------------------------------------
(* The content size under SetMenu, SetContentSize, SetSize and the Alt     *)
(* key.                                                                    *)

ContentSizes == {Size(0, 0), Size(400, 10), Size(kDefaultWidth, kDefaultHeight)}

\* A window is at least as large as its frame.
WindowSizes == {Size(100, 50), Size(kDefaultWidth, kDefaultHeight)}

CallSetContentSize ==
    \E size \in ContentSizes :
        /\ Becomes(SetContentSize(Entry, size), "SetContentSize", size, NULL)
        /\ UNCHANGED <<last_key_event, last_menu_model>>

CallSetSize ==
    \E size \in WindowSizes :
        /\ Becomes(SetSize(Entry, size), "SetSize", size, NULL)
        /\ UNCHANGED <<last_key_event, last_menu_model>>

CallGetContentSize ==
    /\ Becomes(Entry, "GetContentSize", NULL, GetContentSize(Entry))
    /\ UNCHANGED <<last_key_event, last_menu_model>>

InitContentSize ==
    Init(Builds,
         [frame : BOOLEAN, autohide : BOOLEAN, use_content_size : BOOLEAN,
          resizable : {TRUE}, title : {""},
          width : {kDefaultWidth}, height : {50, kDefaultHeight}])

NextContentSize ==
    \/ CallSetMenu(SampleMenus)
    \/ CallSetContentSize
    \/ CallSetSize
    \/ CallGetContentSize
    \/ CallHandleKeyboardEvent(AltTapEvents)

SpecContentSize == InitContentSize /\ [][NextContentSize]_vars

\* The client area of the window without what the menu bar takes of it.
ContentArea ==
    IF has_frame_
    THEN [width |-> IF window_.bounds.width > frame_insets.width
                    THEN window_.bounds.width - frame_insets.width ELSE 0,
          height |->
            LET client == IF window_.bounds.height > frame_insets.height
                          THEN window_.bounds.height - frame_insets.height
                          ELSE 0
                bar == IF menu_bar_visible_
                       THEN IF platform = "win" THEN 20 ELSE 25
                       ELSE 0
            IN  IF client > bar THEN client - bar ELSE 0]
    ELSE [width |-> window_.bounds.width, height |-> window_.bounds.height]

\* C8: in a framed window with use_content_size_ and auto-hide off, the
\* SetMenu call that creates and shows the menu bar leaves GetContentSize()
\* as it was; and after SetContentSize(s), GetContentSize() is s, whether or
\* not the menu bar is visible.
C8_MenuBarKeepsContentSize ==
    [][/\ (/\ has_frame_ /\ use_content_size_ /\ ~menu_bar_autohide_
           /\ menu_bar_ = NULL /\ menu_bar_' # NULL)
          => /\ menu_bar_visible_'
             /\ ContentArea' = ContentArea
             /\ window_'.bounds.height =
                   window_.bounds.height + IF platform = "win" THEN 20 ELSE 25
       /\ last_op'.name = "SetContentSize" => ContentArea' = last_op'.arg
       /\ last_op'.name = "GetContentSize" => last_op'.ret = ContentArea
      ]_vars

C8_Witness ==
    /\ has_frame_ /\ use_content_size_ /\ ~menu_bar_autohide_
    /\ last_op.name = "SetMenu"
    /\ menu_bar_visible_
    /\ Len(smbv_calls) = 1
    /\ Len(widget_calls) = 1
    /\ widget_calls[1].call = "SetBounds"

----------------------------------------------------------------------------
(* The window-state operations: each hands the request to the widget.      *)

Maximize(s) ==
    [WidgetCall(s, "Maximize", NULL)
        EXCEPT !.window_.maximized = TRUE, !.window_.minimized = FALSE]

Unmaximize(s) ==
    [WidgetCall(s, "Restore", NULL)
        EXCEPT !.window_.maximized = FALSE, !.window_.minimized = FALSE]

IsMaximized(s) == s.window_.maximized

Minimize(s) ==
    [WidgetCall(s, "Minimize", NULL) EXCEPT !.window_.minimized = TRUE]

Restore(s) ==
    [WidgetCall(s, "Restore", NULL)
        EXCEPT !.window_.maximized = FALSE, !.window_.minimized = FALSE]

SetFullscreen(s, fullscreen) ==
    [WidgetCall(s, "SetFullscreen", fullscreen)
        EXCEPT !.window_.fullscreen = fullscreen]

IsFullscreen(s) == s.window_.fullscreen

Show(s) == [WidgetCall(s, "Show", NULL) EXCEPT !.window_.visible = TRUE]

Hide(s) == [WidgetCall(s, "Hide", NULL) EXCEPT !.window_.visible = FALSE]

IsVisible(s) == s.window_.visible

Focus_Inverted(s, focus) ==
    IF ~focus
    THEN [WidgetCall(s, "Activate", NULL) EXCEPT !.window_.active = TRUE]
    ELSE [WidgetCall(s, "Deactivate", NULL) EXCEPT !.window_.active = FALSE]

Focus(s, focus) ==
    IF focus
    THEN [WidgetCall(s, "Activate", NULL) EXCEPT !.window_.active = TRUE]
    ELSE [WidgetCall(s, "Deactivate", NULL) EXCEPT !.window_.active = FALSE]

IsFocused(s) == s.window_.active

SetAlwaysOnTop(s, top) ==
    [WidgetCall(s, "SetAlwaysOnTop", top) EXCEPT !.window_.always_on_top = top]

IsAlwaysOnTop(s) == s.window_.always_on_top

Move(s, bounds) == WidgetSetBounds(s, bounds)

Operation(s, name, arg, ret) ==
    /\ Becomes(s, name, arg, ret)
    /\ UNCHANGED <<last_key_event, last_menu_model>>

CallMaximize == Operation(Maximize(Entry), "Maximize", NULL, NULL)

CallUnmaximize == Operation(Unmaximize(Entry), "Unmaximize", NULL, NULL)

CallMinimize == Operation(Minimize(Entry), "Minimize", NULL, NULL)

CallRestore == Operation(Restore(Entry), "Restore", NULL, NULL)

CallSetFullscreen ==
    \E fullscreen \in BOOLEAN :
        Operation(SetFullscreen(Entry, fullscreen), "SetFullscreen",
                  fullscreen, NULL)

CallShow == Operation(Show(Entry), "Show", NULL, NULL)

CallHide == Operation(Hide(Entry), "Hide", NULL, NULL)

CallFocus ==
    \E focus \in BOOLEAN : Operation(Focus(Entry, focus), "Focus", focus, NULL)

CallSetAlwaysOnTop ==
    \E top \in BOOLEAN :
        Operation(SetAlwaysOnTop(Entry, top), "SetAlwaysOnTop", top, NULL)

CallMove ==
    \E bounds \in {Rect(10, 20, 100, 50)} :
        Operation(Move(Entry, bounds), "Move", bounds, NULL)

CallGetSize == Operation(Entry, "GetSize", NULL, GetSize(Entry))

CallIsMaximized == Operation(Entry, "IsMaximized", NULL, IsMaximized(Entry))

CallIsMinimized == Operation(Entry, "IsMinimized", NULL, IsMinimized(Entry))

CallIsFullscreen == Operation(Entry, "IsFullscreen", NULL, IsFullscreen(Entry))

CallIsVisible == Operation(Entry, "IsVisible", NULL, IsVisible(Entry))

CallIsFocused == Operation(Entry, "IsFocused", NULL, IsFocused(Entry))

CallIsAlwaysOnTop ==
    Operation(Entry, "IsAlwaysOnTop", NULL, IsAlwaysOnTop(Entry))

InitWindow ==
    Init({b \in Builds : b.platform = "win" /\ b.insets = Size(16, 39)},
         [frame : {TRUE}, autohide : {FALSE}, use_content_size : {FALSE},
          resizable : BOOLEAN, title : {"t"},
          width : {kDefaultWidth}, height : {kDefaultHeight}])

NextWindow ==
    \/ CallMaximize
    \/ CallUnmaximize
    \/ CallMinimize
    \/ CallRestore
    \/ CallSetFullscreen
    \/ CallShow
    \/ CallHide
    \/ CallFocus
    \/ CallSetAlwaysOnTop
    \/ CallMove
    \/ CallSetSize
    \/ CallGetSize
    \/ CallIsMaximized
    \/ CallIsMinimized
    \/ CallIsFullscreen
    \/ CallIsVisible
    \/ CallIsFocused
    \/ CallIsAlwaysOnTop
    \/ CallSetMenu({{<<"Ctrl+A", 1>>}})

SpecWindow == InitWindow /\ [][NextWindow]_vars

\* The widget call each window-state operation stands for.
DelegatesTo ==
    [Maximize |-> "Maximize", Unmaximize |-> "Restore",
     Minimize |-> "Minimize", Restore |-> "Restore",
     SetFullscreen |-> "SetFullscreen", Show |-> "Show", Hide |-> "Hide",
     SetAlwaysOnTop |-> "SetAlwaysOnTop", Move |-> "SetBounds",
     SetSize |-> "SetSize"]

OwnState ==
    <<menu_bar_visible_, menu_bar_alt_pressed_, menu_bar_autohide_, title_,
      resizable_, minimum_size_, maximum_size_, accelerator_table_,
      draggable_region_>>

----------------------------------------------------------------------------
(* The draggable region.  An SkRegion is the set of its points, among the  *)
(* points of a grid that holds every rectangle used and a margin around.   *)

MaxRegions == 2

Points == (-1..3) \X (-1..3)

\* SkRegion::op(left, top, right, bottom, op): the rectangle holds the points
\* with left <= x < right and top <= y < bottom.
SkRegionOp(region, left, top, right, bottom, op) ==
    LET rect == {p \in Points : /\ left <= p[1] /\ p[1] < right
                                /\ top <= p[2] /\ p[2] < bottom}
    IN  IF op = "kUnion_Op" THEN region \cup rect ELSE region \ rect

\* The loop of UpdateDraggableRegions over regions[1..n], from `region`.
RECURSIVE ApplyRegions(_, _, _)
ApplyRegions(region, regions, n) ==
    IF n = 0
    THEN region
    ELSE LET r == regions[n]
         IN  SkRegionOp(ApplyRegions(region, regions, n - 1),
                        r.bounds.x, r.bounds.y,
                        r.bounds.x + r.bounds.width,
                        r.bounds.y + r.bounds.height,
                        IF r.draggable THEN "kUnion_Op"
                                       ELSE "kDifference_Op")

UpdateDraggableRegions_Accumulate(s, regions) ==
    IF s.has_frame_
    THEN s
    ELSE LET previous == IF s.draggable_region_ = NULL THEN {}
                         ELSE s.draggable_region_.points
         IN  [s EXCEPT !.draggable_region_ =
                 [points |-> ApplyRegions(previous, regions, Len(regions))]]

UpdateDraggableRegions(s, regions) ==
    IF s.has_frame_
    THEN s
    ELSE \* By default, the whole window is non-draggable.
         [s EXCEPT !.draggable_region_ =
             [points |-> ApplyRegions({}, regions, Len(regions))]]

CanResize(s) == s.resizable_

\* border: whether FramelessView::ResizingBorderHitTest finds the location
\* on the resizing border (anything but HTNOWHERE).
ShouldDescendIntoChildForEventHandling(s, location, border) ==
    IF s.draggable_region_ # NULL /\ location \in s.draggable_region_.points
    THEN FALSE
    ELSE IF ~s.has_frame_ /\ CanResize(s)
    THEN ~border
    ELSE TRUE

\* Two rectangles that overlap, and one of no width.
SampleRects == {Rect(0, 0, 2, 2), Rect(1, 1, 2, 2), Rect(1, 0, 0, 3)}

DraggableRegions == [bounds : SampleRects, draggable : BOOLEAN]

RegionLists == UNION {[1..n -> DraggableRegions] : n \in 0..MaxRegions}

ProbedPoints == {<<1, 1>>, <<2, 1>>, <<0, 2>>}

CallUpdateDraggableRegions ==
    \E regions \in RegionLists :
        Operation(UpdateDraggableRegions(Entry, regions),
                  "UpdateDraggableRegions", regions, NULL)

CallShouldDescendIntoChildForEventHandling ==
    \E location \in ProbedPoints, border \in BOOLEAN :
        Operation(Entry, "ShouldDescendIntoChildForEventHandling", location,
                  ShouldDescendIntoChildForEventHandling(Entry, location,
                                                         border))

InitDraggable ==
    Init({b \in Builds : b.platform = "x11" /\ b.insets = Size(16, 39)},
         [frame : BOOLEAN, autohide : {FALSE}, use_content_size : {FALSE},
          resizable : BOOLEAN, title : {""},
          width : {kDefaultWidth}, height : {kDefaultHeight}])

NextDraggable ==
    \/ CallUpdateDraggableRegions
    \/ CallShouldDescendIntoChildForEventHandling

SpecDraggable == InitDraggable /\ [][NextDraggable]_vars

\* Whether a listed region contains the point: bounds half-open.
Contains(region, p) ==
    /\ region.bounds.x <= p[1]
    /\ p[1] < region.bounds.x + region.bounds.width
    /\ region.bounds.y <= p[2]
    /\ p[2] < region.bounds.y + region.bounds.height

\* The last listed region that contains the point is draggable.
Draggable(regions, p) ==
    \E i \in 1..Len(regions) :
        /\ Contains(regions[i], p)
        /\ regions[i].draggable
        /\ \A j \in (i + 1)..Len(regions) : ~Contains(regions[j], p)

\* C4: in a frameless window, after UpdateDraggableRegions(regions) a point
\* is in the draggable region iff some listed region contains it and the last
\* one that does is draggable, whatever the earlier calls listed, and
\* ShouldDescendIntoChildForEventHandling returns false for every point of
\* the region; in a framed window UpdateDraggableRegions changes nothing.
C4_DraggableRegion ==
    [][/\ (last_op'.name = "UpdateDraggableRegions" /\ ~has_frame_) =>
             /\ draggable_region_' # NULL
             /\ \A p \in Points :
                   /\ p \in draggable_region_'.points
                         <=> Draggable(last_op'.arg, p)
                   /\ Draggable(last_op'.arg, p) =>
                         \A border \in BOOLEAN :
                            ~ShouldDescendIntoChildForEventHandling(
                                 Self, p, border)'
       /\ (last_op'.name = "UpdateDraggableRegions" /\ has_frame_) =>
             /\ UNCHANGED OwnState
             /\ UNCHANGED <<window_, menu_bar_, children, registered>>
       /\ (/\ last_op'.name = "ShouldDescendIntoChildForEventHandling"
           /\ draggable_region_ # NULL
           /\ last_op'.arg \in draggable_region_.points) => ~last_op'.ret
      ]_vars

C4_Witness ==
    /\ ~has_frame_
    /\ last_op.name = "UpdateDraggableRegions"
    /\ Len(last_op.arg) = 2
    /\ last_op.arg[1].draggable
    /\ ~last_op.arg[2].draggable
    /\ draggable_region_.points = {<<0, 0>>, <<0, 1>>, <<1, 0>>}

=============================================================================
